---- MODULE Spec2Model ----
(***************************************************************************)
(* Model of the CP-WER scoring path of stt_benchmarking:                   *)
(*   CPWERMetrics.calculate and CPWERMetrics._calculate_greedy_cpwer       *)
(*   (src/src/stt_benchmarking/metrics.py),                                *)
(*   SpeakerMatcher.match_speakers_using_cpwer and _greedy_speaker_matching*)
(*   (src/src/stt_benchmarking/speaker_matcher.py),                        *)
(*   STTBenchmark.evaluate (src/src/stt_benchmarking/benchmark.py).        *)
(*                                                                         *)
(* A speaker-text dictionary (ref_speaker_texts, hyp_speaker_texts) is a   *)
(* sequence of records [spk, text] in the dictionary's insertion order; a  *)
(* text is the sequence of its words (what str.split() returns), so the    *)
(* empty and the whitespace-only string are both <<>>.  A rate (a Python   *)
(* float quotient) is the pair [num, den] and float('inf') is [1, 0].      *)
(* Python's None is the string "None", which is no speaker label here.     *)
(***************************************************************************)
EXTENDS Integers, Sequences, FiniteSets, TLC

VARIABLES ref, hyp, benchmark, matcher, flags, args, pc, op, solver, result, raised, trace

vars == <<ref, hyp, benchmark, matcher, flags, args, pc, op, solver, result, raised, trace>>

----------------------------------------------------------------------------
(* Bounds and input domains *)

MaxSpk == 2

None == "None"

Texts == {<<>>, <<"a">>, <<"b">>, <<"a", "b">>}

RefNames == <<"A", "B", "C">>

HypNames == <<"X", "Y", "Z">>

\* Inputs of evaluate: at most MaxUtt utterances a side, whose words are still
\* to be normalized; one hypothesis label is also a reference label.
MaxUtt == 2

RawTexts == {<<>>, <<"a">>, <<"Um">>, <<"A", "b">>}

EvalRefNames == {"A", "B"}

EvalHypNames == {"A", "X"}

\* Utterances without timestamps (start_time = end_time = None)
\* Inputs of match_speakers: a reference label may be the empty string, and
\* the matchers tried are the default one, a lenient and an unattainable one.
MatchRefNames == {"A", "B", ""}

MatchHypNames == {"A", "X"}

Thresholds == {50, 80, 101}

\* Inputs of the transcript transformations: labels that differ in case only,
\* and utterances with or without timestamps.
CaseNames == {"A", "a"}

\* A timestamp is a number of seconds; NoTime stands for None.
NoTime == 0 - 1

TimePairs == {<<NoTime, NoTime>>, <<0, 1>>}

TimedTranscripts(names) ==
  UNION {[1..n -> {[spk |-> l, text |-> t, start_time |-> tp[1], end_time |-> tp[2]] :
                     l \in names, t \in RawTexts, tp \in TimePairs}] : n \in 0..MaxUtt}

\* The mappings given to apply_speaker_mapping: any dictionary over some of
\* the labels.
Mappings == UNION {[D -> CaseNames \cup {"B"}] : D \in SUBSET CaseNames}

Transcripts(names) ==
  UNION {[1..n -> [spk : names, text : RawTexts,
                   start_time : {NoTime}, end_time : {NoTime}]] : n \in 0..MaxUtt}

\* The transcripts given to evaluate: words the normalizer keeps, lower-cases
\* or drops, on utterances without timestamps.
EvalTexts == {<<"a">>, <<"Um">>, <<"A", "b">>}

EvalTranscripts(names) ==
  UNION {[1..n -> [spk : names, text : EvalTexts,
                   start_time : {NoTime}, end_time : {NoTime}]] : n \in 0..MaxUtt}

\* The labels of a side with n speakers: distinct strings, the first of which
\* may be the empty string (validate_transcript accepts any str as a speaker).
LabelSeqs(names, n) ==
  {[i \in 1..n |-> IF i = 1 /\ blank THEN "" ELSE names[i]] : blank \in BOOLEAN}

SpeakerTexts(names) ==
  UNION {{[i \in 1..n |-> [spk |-> ls[i], text |-> ts[i]]] :
            ls \in LabelSeqs(names, n), ts \in [1..n -> Texts]} : n \in 0..MaxSpk}

----------------------------------------------------------------------------
(* Python helpers *)

\* Transcript.get_speakers, as a set
get_speakers(transcript) == {transcript[i].spk : i \in DOMAIN transcript}

\* The keys of a speaker-text dictionary
Labels(texts) == {texts[i].spk : i \in DOMAIN texts}

\* bool(x) of a str-or-None value: None and "" are falsy.
Truthy(x) == x # None /\ x # ""

Min2(a, b) == IF a <= b THEN a ELSE b

Max2(a, b) == IF a >= b THEN a ELSE b

RECURSIVE SumSeq(_)
SumSeq(s) == IF s = <<>> THEN 0 ELSE Head(s) + SumSeq(Tail(s))

Inf == [num |-> 1, den |-> 0]

Rate(n, d) == [num |-> n, den |-> d]

\* a < b on rates (floats), float('inf') included
RateLess(a, b) == a.num * b.den < b.num * a.den

RateEq(a, b) == a.num * b.den = b.num * a.den /\ (a.den = 0) = (b.den = 0)

----------------------------------------------------------------------------
(* jiwer.compute_measures on two non-empty texts: the counts of a minimum   *)
(* word-level alignment (hits before substitutions before deletions before  *)
(* insertions).                                                             *)

Errors(m) == m.substitutions + m.deletions + m.insertions

RECURSIVE compute_measures(_, _)
compute_measures(r, h) ==
  IF r = <<>>
    THEN [hits |-> 0, substitutions |-> 0, deletions |-> 0, insertions |-> Len(h)]
  ELSE IF h = <<>>
    THEN [hits |-> 0, substitutions |-> 0, deletions |-> Len(r), insertions |-> 0]
  ELSE IF Head(r) = Head(h)
    THEN [compute_measures(Tail(r), Tail(h)) EXCEPT !.hits = @ + 1]
  ELSE LET sub == compute_measures(Tail(r), Tail(h))
           del == compute_measures(Tail(r), h)
           ins == compute_measures(r, Tail(h))
       IN  IF Errors(sub) <= Errors(del) /\ Errors(sub) <= Errors(ins)
             THEN [sub EXCEPT !.substitutions = @ + 1]
           ELSE IF Errors(del) <= Errors(ins)
             THEN [del EXCEPT !.deletions = @ + 1]
           ELSE [ins EXCEPT !.insertions = @ + 1]

\* measures['wer'] = (S + D + I) / (H + S + D)
MeasuredWer(m) == Rate(Errors(m), m.hits + m.substitutions + m.deletions)

----------------------------------------------------------------------------
(* CPWERMetrics._calculate_greedy_cpwer *)

\* One cell wer_matrix[ref_spk][hyp_spk], from the two texts after strip().
Cell(refText, hypText) ==
  IF refText = <<>>
    THEN [wer |-> Inf, errors |-> 0, substitutions |-> 0, deletions |-> 0,
          insertions |-> 0, ref_words |-> 0]
  ELSE IF hypText = <<>>
    THEN [wer |-> Rate(1, 1), errors |-> Len(refText), substitutions |-> 0,
          deletions |-> Len(refText), insertions |-> 0, ref_words |-> Len(refText)]
  ELSE LET measures == compute_measures(refText, hypText)
       IN  [wer |-> MeasuredWer(measures), errors |-> Errors(measures),
            substitutions |-> measures.substitutions,
            deletions |-> measures.deletions,
            insertions |-> measures.insertions, ref_words |-> Len(refText)]

\* sorted(keys, key=word count, reverse=True): a stable sort, so speakers of
\* equal word count keep their dictionary order.  The result lists indices.
RECURSIVE SortByWordsDesc(_, _)
SortByWordsDesc(texts, S) ==
  IF S = {} THEN <<>>
  ELSE LET i == CHOOSE i \in S : \A j \in S :
                  \/ Len(texts[j].text) < Len(texts[i].text)
                  \/ Len(texts[j].text) = Len(texts[i].text) /\ i <= j
       IN  <<i>> \o SortByWordsDesc(texts, S \ {i})

ref_speakers_sorted(refTexts) == SortByWordsDesc(refTexts, DOMAIN refTexts)

NoBest == [hyp |-> None, wer |-> Inf, metrics |-> Cell(<<>>, <<>>)]

\* The inner loop over hyp_speaker_texts.keys(): the first unmatched speaker
\* whose wer is strictly below every earlier candidate's.
RECURSIVE BestFrom(_, _, _, _, _)
BestFrom(refText, hypTexts, matched_hyp, j, best) ==
  IF j > Len(hypTexts) THEN best
  ELSE LET metrics == Cell(refText, hypTexts[j].text)
       IN  IF hypTexts[j].spk \notin matched_hyp /\ RateLess(metrics.wer, best.wer)
             THEN BestFrom(refText, hypTexts, matched_hyp, j + 1,
                           [hyp |-> hypTexts[j].spk, wer |-> metrics.wer,
                            metrics |-> metrics])
           ELSE BestFrom(refText, hypTexts, matched_hyp, j + 1, best)

BestHyp(refText, hypTexts, matched_hyp) ==
  BestFrom(refText, hypTexts, matched_hyp, 1, NoBest)

GreedyStart ==
  [assignment |-> <<>>, matched_hyp |-> {}, total_errors |-> 0,
   total_ref_words |-> 0, total_substitutions |-> 0, total_deletions |-> 0,
   total_insertions |-> 0]

\* An iteration that leaves the words of a missed reference speaker out of
\* total_ref_words.
GreedyStep_MissedNotCounted(acc, r, hypTexts) ==
  IF r.text = <<>>
    THEN [acc EXCEPT !.assignment = Append(@, <<r.spk, None>>)]
  ELSE LET ref_words == Len(r.text)
           best == BestHyp(r.text, hypTexts, acc.matched_hyp)
       IN  IF Truthy(best.hyp)
             THEN [acc EXCEPT
                     !.assignment = Append(@, <<r.spk, best.hyp>>),
                     !.matched_hyp = @ \cup {best.hyp},
                     !.total_ref_words = @ + ref_words,
                     !.total_errors = @ + best.metrics.errors,
                     !.total_substitutions = @ + best.metrics.substitutions,
                     !.total_deletions = @ + best.metrics.deletions,
                     !.total_insertions = @ + best.metrics.insertions]
           ELSE [acc EXCEPT
                     !.assignment = Append(@, <<r.spk, None>>),
                     !.total_errors = @ + ref_words,
                     !.total_deletions = @ + ref_words]

\* One iteration of "for ref_spk in ref_speakers_sorted".
GreedyStep(acc, r, hypTexts) ==
  IF r.text = <<>>
    THEN [acc EXCEPT !.assignment = Append(@, <<r.spk, None>>)]
  ELSE LET ref_words == Len(r.text)
           best == BestHyp(r.text, hypTexts, acc.matched_hyp)
       IN  IF Truthy(best.hyp)
             THEN [acc EXCEPT
                     !.assignment = Append(@, <<r.spk, best.hyp>>),
                     !.matched_hyp = @ \cup {best.hyp},
                     !.total_ref_words = @ + ref_words,
                     !.total_errors = @ + best.metrics.errors,
                     !.total_substitutions = @ + best.metrics.substitutions,
                     !.total_deletions = @ + best.metrics.deletions,
                     !.total_insertions = @ + best.metrics.insertions]
           ELSE [acc EXCEPT
                     !.assignment = Append(@, <<r.spk, None>>),
                     !.total_ref_words = @ + ref_words,
                     !.total_errors = @ + ref_words,
                     !.total_deletions = @ + ref_words]

RECURSIVE GreedyLoop(_, _, _, _)
GreedyLoop(acc, order, refTexts, hypTexts) ==
  IF order = <<>> THEN acc
  ELSE GreedyLoop(GreedyStep(acc, refTexts[Head(order)], hypTexts),
                  Tail(order), refTexts, hypTexts)

\* Mutant: an unmatched hypothesis speaker's words are not counted.
FalseAlarmStep_NoInsertions(acc, h) ==
  IF h.spk \in acc.matched_hyp THEN acc
  ELSE [acc EXCEPT !.assignment = Append(@, <<None, h.spk>>)]

\* An iteration that counts an unmatched hypothesis speaker's words as errors
\* but not as insertions.
FalseAlarmStep_ErrorsOnly(acc, h) ==
  IF h.spk \in acc.matched_hyp THEN acc
  ELSE IF h.text # <<>>
    THEN [acc EXCEPT !.assignment = Append(@, <<None, h.spk>>),
                     !.total_errors = @ + Len(h.text)]
  ELSE [acc EXCEPT !.assignment = Append(@, <<None, h.spk>>)]

\* One iteration of "for hyp_spk in hyp_speaker_texts.keys()" after the loop.
FalseAlarmStep(acc, h) ==
  IF h.spk \in acc.matched_hyp THEN acc
  ELSE IF h.text # <<>>
    THEN [acc EXCEPT !.assignment = Append(@, <<None, h.spk>>),
                     !.total_errors = @ + Len(h.text),
                     !.total_insertions = @ + Len(h.text)]
  ELSE [acc EXCEPT !.assignment = Append(@, <<None, h.spk>>)]

RECURSIVE FalseAlarmLoop(_, _, _)
FalseAlarmLoop(acc, hypTexts, j) ==
  IF j > Len(hypTexts) THEN acc
  ELSE FalseAlarmLoop(FalseAlarmStep(acc, hypTexts[j]), hypTexts, j + 1)

CountPairs(assignment, P(_, _)) ==
  Cardinality({k \in DOMAIN assignment : P(assignment[k][1], assignment[k][2])})

IsMissed(r, h) == Truthy(r) /\ ~Truthy(h)

IsFalarm(r, h) == ~Truthy(r) /\ Truthy(h)

IsScored(r, h) == Truthy(r) /\ Truthy(h)

GreedyRate(total_errors, total_ref_words) ==
  IF total_ref_words > 0 THEN Rate(total_errors, total_ref_words) ELSE Rate(0, 1)

GreedyAcc(refTexts, hypTexts) ==
  FalseAlarmLoop(
    GreedyLoop(GreedyStart, ref_speakers_sorted(refTexts), refTexts, hypTexts),
    hypTexts, 1)

_calculate_greedy_cpwer(refTexts, hypTexts) ==
  LET acc == GreedyAcc(refTexts, hypTexts)
      ref_speakers == Len(refTexts)
      hyp_speakers == Len(hypTexts)
  IN  [cp_wer |-> GreedyRate(acc.total_errors, acc.total_ref_words),
       total_errors |-> acc.total_errors,
       total_reference_words |-> acc.total_ref_words,
       insertions |-> acc.total_insertions,
       deletions |-> acc.total_deletions,
       substitutions |-> acc.total_substitutions,
       missed_speaker |-> CountPairs(acc.assignment, IsMissed),
       falarm_speaker |-> CountPairs(acc.assignment, IsFalarm),
       scored_speaker |-> CountPairs(acc.assignment, IsScored),
       ref_num_speakers |-> ref_speakers,
       hyp_num_speakers |-> hyp_speakers,
       speaker_count_correct |-> IF ref_speakers = hyp_speakers THEN 1 ELSE 0,
       optimal_assignment |-> acc.assignment,
       cp_wer_approximation |-> "greedy"]

----------------------------------------------------------------------------
(* The exact strategy: meeteval's cp_word_error_rate, called at             *)
(* metrics.py:118 and speaker_matcher.py:148.  The shorter side is padded   *)
(* with empty dummy speakers, the solver returns a permutation of least     *)
(* total edit distance, and the counts are summed over its pairs.           *)

NoRate == [num |-> 0, den |-> 0]

Padded(texts, n) ==
  [i \in 1..n |-> IF i <= Len(texts) THEN texts[i] ELSE [spk |-> None, text |-> <<>>]]

Bijections(n) == {p \in [1..n -> 1..n] : \A i, j \in 1..n : p[i] = p[j] => i = j}

PairMeasures(refTexts, hypTexts, p) ==
  LET n == Max2(Len(refTexts), Len(hypTexts))
      rs == Padded(refTexts, n)
      hs == Padded(hypTexts, n)
  IN  [i \in 1..n |-> compute_measures(rs[i].text, hs[p[i]].text)]

AssignmentCost(refTexts, hypTexts, p) ==
  LET ms == PairMeasures(refTexts, hypTexts, p)
  IN  SumSeq([i \in DOMAIN ms |-> Errors(ms[i])])

OptimalAssignments(refTexts, hypTexts) ==
  LET ps == Bijections(Max2(Len(refTexts), Len(hypTexts)))
      costs == {<<p, AssignmentCost(refTexts, hypTexts, p)>> : p \in ps}
  IN  {c[1] : c \in {c \in costs : \A d \in costs : c[2] <= d[2]}}

\* The CPErrorRate object for the optimal permutation p the solver returned.
cp_word_error_rate(refTexts, hypTexts, p) ==
  LET n == Max2(Len(refTexts), Len(hypTexts))
      rs == Padded(refTexts, n)
      hs == Padded(hypTexts, n)
      ms == PairMeasures(refTexts, hypTexts, p)
      errors == SumSeq([i \in 1..n |-> Errors(ms[i])])
      length == SumSeq([i \in 1..Len(refTexts) |-> Len(refTexts[i].text)])
  IN  [error_rate |-> IF length > 0 THEN Rate(errors, length) ELSE NoRate,
       errors |-> errors,
       length |-> length,
       insertions |-> SumSeq([i \in 1..n |-> ms[i].insertions]),
       deletions |-> SumSeq([i \in 1..n |-> ms[i].deletions]),
       substitutions |-> SumSeq([i \in 1..n |-> ms[i].substitutions]),
       missed_speaker |-> Max2(0, Len(refTexts) - Len(hypTexts)),
       falarm_speaker |-> Max2(0, Len(hypTexts) - Len(refTexts)),
       scored_speaker |-> Len(refTexts),
       assignment |-> [i \in 1..n |-> <<rs[i].spk, hs[p[i]].spk>>]]

\* What the solver call ends with: a result for one optimal permutation, or
\* an exception.  Which inputs the library rejects is its own decision; the
\* callers below only see the exception's type and message.
OverflowMessages == {"Are you sure? Found a total of 21 speakers in the input.",
                     "Too many speakers"}

SolverErrors ==
  {[type |-> "RuntimeError", msg |-> m] : m \in OverflowMessages \cup {"solver failed"}}
    \cup {[type |-> "ValueError", msg |-> "malformed cost matrix"]}

NoException == [type |-> None, msg |-> ""]

SolverOutcomes(refTexts, hypTexts) ==
  {[ok |-> TRUE, p |-> p, exc |-> NoException] : p \in OptimalAssignments(refTexts, hypTexts)}
    \cup {[ok |-> FALSE, p |-> <<>>, exc |-> e] : e \in SolverErrors}

\* A handler that recognises only one of the two overflow messages.
MentionsOverflow_OnlyTooManySpeakers(msg) == msg = "Too many speakers"

\* "too many speakers" in str(e).lower() or "are you sure" in str(e).lower()
MentionsOverflow(msg) ==
  \/ msg = "Too many speakers"
  \/ msg = "Are you sure? Found a total of 21 speakers in the input."

\* except RuntimeError as e: if <overflow message>: fall back, else: raise
CaughtForFallback(e) == e.type = "RuntimeError" /\ MentionsOverflow(e.msg)

----------------------------------------------------------------------------
(* CPWERMetrics.calculate *)

NoResult == << >>

ExactResult(refTexts, hypTexts, r) ==
  LET ref_speakers == Len(refTexts)
      hyp_speakers == Len(hypTexts)
  IN  [cp_wer |-> r.error_rate,
       total_errors |-> r.errors,
       total_reference_words |-> r.length,
       insertions |-> r.insertions,
       deletions |-> r.deletions,
       substitutions |-> r.substitutions,
       missed_speaker |-> r.missed_speaker,
       falarm_speaker |-> r.falarm_speaker,
       scored_speaker |-> r.scored_speaker,
       ref_num_speakers |-> ref_speakers,
       hyp_num_speakers |-> hyp_speakers,
       speaker_count_correct |-> IF ref_speakers = hyp_speakers THEN 1 ELSE 0,
       optimal_assignment |-> r.assignment]

\* "Group by speaker and concatenate text": one entry per speaker label, in
\* the order of first appearance, holding the words of all its utterances.
RECURSIVE GroupFrom(_, _)
GroupFrom(utterances, acc) ==
  IF utterances = <<>> THEN acc
  ELSE LET utt == Head(utterances)
       IN  IF \E i \in DOMAIN acc : acc[i].spk = utt.spk
             THEN GroupFrom(Tail(utterances),
                            [i \in DOMAIN acc |->
                               IF acc[i].spk = utt.spk
                                 THEN [acc[i] EXCEPT !.text = @ \o utt.text]
                                 ELSE acc[i]])
           ELSE GroupFrom(Tail(utterances),
                          Append(acc, [spk |-> utt.spk, text |-> utt.text]))

GroupBySpeaker(transcript) == GroupFrom(transcript, <<>>)

\* The call after the grouping, for one outcome o of the solver: what is
\* returned or raised, and the strategies that ran, in order.
CalculateOn(refTexts, hypTexts, o) ==
  IF o.ok
    THEN [result |-> ExactResult(refTexts, hypTexts,
                                 cp_word_error_rate(refTexts, hypTexts, o.p)),
          raised |-> NoException,
          trace |-> <<"exact">>]
  ELSE IF CaughtForFallback(o.exc)
    THEN [result |-> _calculate_greedy_cpwer(refTexts, hypTexts),
          raised |-> NoException,
          trace |-> <<"exact", "exact_failed", "greedy">>]
  ELSE [result |-> NoResult, raised |-> o.exc, trace |-> <<"exact", "exact_failed">>]

calculate(reference, hypothesis, o) ==
  CalculateOn(GroupBySpeaker(reference), GroupBySpeaker(hypothesis), o)

\* The outcomes the solver call of one operation on the two transcripts can have.
Outcomes(reference, hypothesis) ==
  SolverOutcomes(GroupBySpeaker(reference), GroupBySpeaker(hypothesis))

----------------------------------------------------------------------------
(* SpeakerMatcher.match_speakers_using_cpwer and _greedy_speaker_matching *)

\* wer_matrix[ref_spk][hyp_spk] of _greedy_speaker_matching: the rate alone.
MatcherWer(refText, hypText) ==
  IF refText = <<>> THEN Inf
  ELSE IF hypText = <<>> THEN Rate(1, 1)
  ELSE MeasuredWer(compute_measures(refText, hypText))

hyp_speakers_sorted(hypTexts) == SortByWordsDesc(hypTexts, DOMAIN hypTexts)

\* The inner loop over ref_speaker_texts.keys().
RECURSIVE BestRefFrom(_, _, _, _, _)
BestRefFrom(hypText, refTexts, matched_ref, i, best) ==
  IF i > Len(refTexts) THEN best
  ELSE LET wer == MatcherWer(refTexts[i].text, hypText)
       IN  IF refTexts[i].spk \notin matched_ref /\ RateLess(wer, best.wer)
             THEN BestRefFrom(hypText, refTexts, matched_ref, i + 1,
                              [ref |-> refTexts[i].spk, wer |-> wer])
           ELSE BestRefFrom(hypText, refTexts, matched_ref, i + 1, best)

BestRef(hypText, refTexts, matched_ref) ==
  BestRefFrom(hypText, refTexts, matched_ref, 1, [ref |-> None, wer |-> Inf])

\* One iteration of "for hyp_spk in hyp_speakers_sorted"; speaker_mapping is
\* kept as the sequence of its (key, value) insertions.
MatchStep(acc, h, refTexts) ==
  LET best == BestRef(h.text, refTexts, acc.matched_ref)
  IN  IF Truthy(best.ref)
        THEN [speaker_mapping |-> Append(acc.speaker_mapping, <<h.spk, best.ref>>),
              matched_ref |-> acc.matched_ref \cup {best.ref}]
      ELSE [speaker_mapping |-> Append(acc.speaker_mapping, <<h.spk, h.spk>>),
            matched_ref |-> acc.matched_ref]

RECURSIVE MatchLoop(_, _, _, _)
MatchLoop(acc, order, refTexts, hypTexts) ==
  IF order = <<>> THEN acc
  ELSE MatchLoop(MatchStep(acc, hypTexts[Head(order)], refTexts),
                 Tail(order), refTexts, hypTexts)

\* The dictionary a sequence of insertions leaves: the last value of each key.
AsDict(insertions) ==
  [k \in {insertions[i][1] : i \in DOMAIN insertions} |->
     insertions[CHOOSE i \in DOMAIN insertions :
                  /\ insertions[i][1] = k
                  /\ \A j \in DOMAIN insertions : insertions[j][1] = k => j <= i][2]]

_greedy_speaker_matching(refTexts, hypTexts) ==
  AsDict(MatchLoop([speaker_mapping |-> <<>>, matched_ref |-> {}],
                   hyp_speakers_sorted(hypTexts), refTexts, hypTexts).speaker_mapping)

\* "Convert assignment to mapping dictionary", then the identity for every
\* hypothesis speaker the assignment does not mention.
RECURSIVE AssignmentInsertions(_)
AssignmentInsertions(assignment) ==
  IF assignment = <<>> THEN <<>>
  ELSE LET ref_spk == Head(assignment)[1]
           hyp_spk == Head(assignment)[2]
       IN  IF hyp_spk # None
             THEN <<<<hyp_spk, IF ref_spk # None THEN ref_spk ELSE hyp_spk>>>>
                    \o AssignmentInsertions(Tail(assignment))
           ELSE AssignmentInsertions(Tail(assignment))

MappingFromAssignment(assignment, hypTexts) ==
  LET speaker_mapping == AsDict(AssignmentInsertions(assignment))
  IN  [h \in Labels(hypTexts) |->
         IF h \in DOMAIN speaker_mapping THEN speaker_mapping[h] ELSE h]

MatchOn(refTexts, hypTexts, o) ==
  IF o.ok
    THEN [result |-> MappingFromAssignment(
                       cp_word_error_rate(refTexts, hypTexts, o.p).assignment, hypTexts),
          raised |-> NoException,
          trace |-> <<"exact">>]
  ELSE IF CaughtForFallback(o.exc)
    THEN [result |-> _greedy_speaker_matching(refTexts, hypTexts),
          raised |-> NoException,
          trace |-> <<"exact", "exact_failed", "greedy">>]
  ELSE [result |-> NoResult, raised |-> o.exc, trace |-> <<"exact", "exact_failed">>]

match_speakers_using_cpwer(reference, hypothesis, o) ==
  MatchOn(GroupBySpeaker(reference), GroupBySpeaker(hypothesis), o)


----------------------------------------------------------------------------
(* SpeakerMatcher.match_speakers and thefuzz's token_sort_ratio *)

\* str.lower() on the words used here
Lower(w) == IF w = "A" THEN "a" ELSE IF w = "Um" THEN "um" ELSE w

LowerText(text) == [i \in DOMAIN text |-> Lower(text[i])]

\* The characters of a lower-cased word
Chars(w) == IF w = "um" THEN <<"u", "m">> ELSE <<w>>

\* The order sorted() puts lower-cased words in
WordRank(w) == IF w = "a" THEN 1 ELSE IF w = "b" THEN 2 ELSE 3

RECURSIVE SortTokens(_)
SortTokens(text) ==
  IF text = <<>> THEN <<>>
  ELSE LET i == CHOOSE i \in DOMAIN text : \A j \in DOMAIN text :
                  \/ WordRank(text[i]) < WordRank(text[j])
                  \/ WordRank(text[i]) = WordRank(text[j]) /\ i <= j
       IN  <<text[i]>> \o SortTokens([k \in 1..(Len(text) - 1) |->
                                        IF k < i THEN text[k] ELSE text[k + 1]])

\* " ".join(tokens), as a sequence of characters
RECURSIVE JoinChars(_)
JoinChars(text) ==
  IF text = <<>> THEN <<>>
  ELSE IF Len(text) = 1 THEN Chars(text[1])
  ELSE Chars(text[1]) \o <<" ">> \o JoinChars(Tail(text))

\* One row of the longest-common-subsequence table: prev is the row of the
\* characters before c, cur the entries of this row computed so far.
RECURSIVE LcsRow(_, _, _, _)
LcsRow(prev, c, y, cur) ==
  IF Len(cur) = Len(y) THEN cur
  ELSE LET j == Len(cur) + 1
           diag == IF j = 1 THEN 0 ELSE prev[j - 1]
           left == IF j = 1 THEN 0 ELSE cur[j - 1]
       IN  LcsRow(prev, c, y,
                  Append(cur, IF c = y[j] THEN diag + 1 ELSE Max2(prev[j], left)))

RECURSIVE LcsRows(_, _, _)
LcsRows(x, y, prev) ==
  IF x = <<>> THEN prev
  ELSE LcsRows(Tail(x), y, LcsRow(prev, Head(x), y, <<>>))

Lcs(x, y) ==
  IF y = <<>> THEN 0 ELSE LcsRows(x, y, [j \in 1..Len(y) |-> 0])[Len(y)]

\* int(round(n / d)), Python rounding halves to the even integer
Round(n, d) ==
  LET q == n \div d
      r == n % d
  IN  IF 2 * r < d THEN q
      ELSE IF 2 * r > d THEN q + 1
      ELSE IF q % 2 = 0 THEN q ELSE q + 1

\* What the releases of the library give for two empty strings
EmptyScores == {0, 100}

\* fuzz.token_sort_ratio(s1, s2): the normalized indel similarity (0..100) of
\* the two strings after their tokens are lower-cased and sorted.
token_sort_ratio(s1, s2, empty_score) ==
  LET x == JoinChars(SortTokens(LowerText(s1)))
      y == JoinChars(SortTokens(LowerText(s2)))
  IN  IF x = <<>> /\ y = <<>> THEN empty_score
      ELSE Round(200 * Lcs(x, y), Len(x) + Len(y))

\* A profile that compares speaker labels without regard to case.
RECURSIVE get_text_by_speaker_IgnoringCase(_, _)
get_text_by_speaker_IgnoringCase(transcript, speaker) ==
  IF transcript = <<>> THEN <<>>
  ELSE (IF Lower(Head(transcript).spk) = Lower(speaker)
          THEN Head(transcript).text ELSE <<>>)
         \o get_text_by_speaker_IgnoringCase(Tail(transcript), speaker)

\* Transcript.get_text_by_speaker: the texts of the speaker's utterances, joined
RECURSIVE get_text_by_speaker(_, _)
get_text_by_speaker(transcript, speaker) ==
  IF transcript = <<>> THEN <<>>
  ELSE (IF Head(transcript).spk = speaker THEN Head(transcript).text ELSE <<>>)
         \o get_text_by_speaker(Tail(transcript), speaker)

\* list(set(...)) lists the speakers in an order the runtime chooses.
SpeakerOrders(transcript) ==
  LET S == get_speakers(transcript)
  IN  {o \in [1..Cardinality(S) -> S] : \A i, j \in DOMAIN o : o[i] = o[j] => i = j}

MappingValues(speaker_mapping) ==
  {speaker_mapping[i][2] : i \in DOMAIN speaker_mapping}

\* The inner loop over ref_profiles for one hypothesis speaker.
RECURSIVE BestMatchFrom(_, _, _, _, _, _, _)
BestMatchFrom(self, hyp_text, reference, ref_order, speaker_mapping, empty_score, best) ==
  IF ref_order = <<>> THEN best
  ELSE LET ref_spk == Head(ref_order)
           score == token_sort_ratio(LowerText(hyp_text),
                                     LowerText(get_text_by_speaker(reference, ref_spk)),
                                     empty_score)
       IN  BestMatchFrom(self, hyp_text, reference, Tail(ref_order), speaker_mapping,
                         empty_score,
                         IF ref_spk \in MappingValues(speaker_mapping) THEN best
                         ELSE IF score > best.best_score /\ score >= self.threshold
                           THEN [best_match |-> ref_spk, best_score |-> score]
                         ELSE best)

RECURSIVE MatchSpeakersLoop(_, _, _, _, _, _, _)
MatchSpeakersLoop(self, reference, hypothesis, ref_order, hyp_order, empty_score, speaker_mapping) ==
  IF hyp_order = <<>> THEN speaker_mapping
  ELSE LET hyp_spk == Head(hyp_order)
           best == BestMatchFrom(self, get_text_by_speaker(hypothesis, hyp_spk),
                                 reference, ref_order, speaker_mapping, empty_score,
                                 [best_match |-> None, best_score |-> 0])
       IN  MatchSpeakersLoop(self, reference, hypothesis, ref_order, Tail(hyp_order),
                             empty_score,
                             Append(speaker_mapping,
                                    <<hyp_spk, IF Truthy(best.best_match)
                                                 THEN best.best_match ELSE hyp_spk>>))

\* match_speakers for the iteration orders a and the library release chosen.
match_speakers(self, reference, hypothesis, a) ==
  AsDict(MatchSpeakersLoop(self, reference, hypothesis, a.ref_order, a.hyp_order,
                           a.empty_score, <<>>))

----------------------------------------------------------------------------
(* STTBenchmark.evaluate and the steps it calls *)

\* EnglishTextNormalizer on the words used here: lower-cases, and drops the
\* filler words it ignores.
NormalizeWord(w) == IF w = "A" THEN <<"a">> ELSE IF w = "Um" THEN <<>> ELSE <<w>>

RECURSIVE normalize_text(_)
normalize_text(text) ==
  IF text = <<>> THEN <<>>
  ELSE NormalizeWord(Head(text)) \o normalize_text(Tail(text))

\* A normalization that rebuilds the utterances from speaker and text alone.
normalize_transcript_WithoutTimestamps(transcript) ==
  [i \in DOMAIN transcript |->
     [spk |-> transcript[i].spk,
      text |-> normalize_text(transcript[i].text),
      start_time |-> NoTime,
      end_time |-> NoTime]]

normalize_transcript(transcript) ==
  [i \in DOMAIN transcript |->
     [spk |-> transcript[i].spk,
      text |-> normalize_text(transcript[i].text),
      start_time |-> transcript[i].start_time,
      end_time |-> transcript[i].end_time]]

\* A relabeling by mapping.get(utt.speaker), without the default.
apply_speaker_mapping_NoDefault(transcript, mapping) ==
  [i \in DOMAIN transcript |->
     [spk |-> IF transcript[i].spk \in DOMAIN mapping
                THEN mapping[transcript[i].spk] ELSE None,
      text |-> transcript[i].text,
      start_time |-> transcript[i].start_time,
      end_time |-> transcript[i].end_time]]

\* mapping.get(utt.speaker, utt.speaker) on every utterance
apply_speaker_mapping(transcript, mapping) ==
  [i \in DOMAIN transcript |->
     [spk |-> IF transcript[i].spk \in DOMAIN mapping
                THEN mapping[transcript[i].spk] ELSE transcript[i].spk,
      text |-> transcript[i].text,
      start_time |-> transcript[i].start_time,
      end_time |-> transcript[i].end_time]]

RECURSIVE get_all_text(_)
get_all_text(transcript) ==
  IF transcript = <<>> THEN <<>>
  ELSE Head(transcript).text \o get_all_text(Tail(transcript))

\* jiwer rejects a reference without words
EmptyReferenceError ==
  [type |-> "ValueError", msg |-> "one or more references are empty strings"]

\* WERMetrics.calculate: the dictionary, or the exception jiwer raises.
WERMetrics_calculate(reference, hypothesis) ==
  LET ref_text == get_all_text(reference)
      hyp_text == get_all_text(hypothesis)
      measures == compute_measures(ref_text, hyp_text)
      nref == Len(ref_text)
      nhyp == Len(hyp_text)
      ref_speakers == Cardinality(get_speakers(reference))
      hyp_speakers == Cardinality(get_speakers(hypothesis))
  IN  IF ref_text = <<>>
        THEN [result |-> NoResult, raised |-> EmptyReferenceError]
      ELSE [result |->
              [wer |-> MeasuredWer(measures),
               mer |-> Rate(Errors(measures), measures.hits + Errors(measures)),
               wil |-> IF nhyp >= 1
                         THEN Rate(nref * nhyp - measures.hits * measures.hits, nref * nhyp)
                         ELSE Rate(1, 1),
               wip |-> IF nhyp >= 1
                         THEN Rate(measures.hits * measures.hits, nref * nhyp)
                         ELSE Rate(0, 1),
               hits |-> measures.hits,
               substitutions |-> measures.substitutions,
               deletions |-> measures.deletions,
               insertions |-> measures.insertions,
               ref_num_speakers |-> ref_speakers,
               hyp_num_speakers |-> hyp_speakers,
               speaker_count_correct |-> IF ref_speakers = hyp_speakers THEN 1 ELSE 0],
            raised |-> NoException]

\* results.update(d)
Update(results, d) ==
  [k \in DOMAIN results \cup DOMAIN d |-> IF k \in DOMAIN d THEN d[k] ELSE results[k]]

\* How the solver behaves during one evaluation: it works, or it fails the
\* same way on each call.
SolverBehaviours ==
  {[ok |-> TRUE, p |-> <<>>, exc |-> NoException]}
    \cup {[ok |-> FALSE, p |-> <<>>, exc |-> e] : e \in SolverErrors}

OutcomesUnder(b, reference, hypothesis) ==
  {o \in Outcomes(reference, hypothesis) : o.ok = b.ok /\ o.exc = b.exc}

\* DERMetrics.calculate: without a timestamp on every utterance it raises
\* ValueError; otherwise it returns what pyannote computes, values this model
\* does not look into.
HasTimestamps(transcript) ==
  \A i \in DOMAIN transcript :
    transcript[i].start_time # NoTime /\ transcript[i].end_time # NoTime

SpeakerCounts(reference, hypothesis) ==
  LET ref_speakers == Cardinality(get_speakers(reference))
      hyp_speakers == Cardinality(get_speakers(hypothesis))
  IN  [ref_num_speakers |-> ref_speakers,
       hyp_num_speakers |-> hyp_speakers,
       speaker_count_correct |-> IF ref_speakers = hyp_speakers THEN 1 ELSE 0]

DERMetrics_calculate(reference, hypothesis) ==
  IF ~HasTimestamps(reference)
    THEN [result |-> NoResult,
          raised |-> [type |-> "ValueError",
                      msg |-> "Reference transcript must have timestamps for DER calculation"]]
  ELSE IF ~HasTimestamps(hypothesis)
    THEN [result |-> NoResult,
          raised |-> [type |-> "ValueError",
                      msg |-> "Hypothesis transcript must have timestamps for DER calculation"]]
  ELSE [result |-> Update([der |-> "pyannote", false_alarm |-> "pyannote",
                           missed_detection |-> "pyannote", confusion |-> "pyannote",
                           total |-> "pyannote"],
                          SpeakerCounts(reference, hypothesis)),
        raised |-> NoException]

\* [(word, utt.speaker) for word in words] over all utterances
RECURSIVE WordsWithSpeaker(_)
WordsWithSpeaker(transcript) ==
  IF transcript = <<>> THEN <<>>
  ELSE [k \in 1..Len(Head(transcript).text) |->
          <<Head(transcript).text[k], Head(transcript).spk>>]
         \o WordsWithSpeaker(Tail(transcript))

\* DERMetrics.calculate_without_timestamps
calculate_without_timestamps(reference, hypothesis) ==
  LET ref_words_with_speaker == WordsWithSpeaker(reference)
      hyp_words_with_speaker == WordsWithSpeaker(hypothesis)
      min_len == Min2(Len(ref_words_with_speaker), Len(hyp_words_with_speaker))
      speaker_errors ==
        Cardinality({i \in 1..min_len :
                       /\ Lower(ref_words_with_speaker[i][1]) = Lower(hyp_words_with_speaker[i][1])
                       /\ ref_words_with_speaker[i][2] # hyp_words_with_speaker[i][2]})
      total_words == Len(ref_words_with_speaker)
  IN  Update([speaker_error_rate |-> IF total_words > 0
                                       THEN Rate(speaker_errors, total_words)
                                       ELSE Rate(0, 1),
              speaker_errors |-> speaker_errors,
              total_words |-> total_words],
             SpeakerCounts(reference, hypothesis))

\* The DER step of evaluate: DERMetrics.calculate, and on ValueError the
\* metric without timestamps.
DerResults(reference, hypothesis) ==
  LET d == DERMetrics_calculate(reference, hypothesis)
  IN  IF d.raised = NoException THEN d.result
      ELSE calculate_without_timestamps(reference, hypothesis)

\* The steps after the conversion to Transcript objects, for the benchmark's
\* settings self, the flags the call was made with, and the solver outcomes
\* o1 (speaker matching) and o2 (CP-WER).
EvaluateMetrics(called, reference, hypothesis, o2, steps) ==
  LET w == WERMetrics_calculate(reference, hypothesis)
      c == calculate(reference, hypothesis, o2)
      afterWer == IF called.calculate_wer THEN w.result ELSE NoResult
      stepsWer == IF called.calculate_wer THEN Append(steps, "wer") ELSE steps
      afterCp == IF called.calculate_cp_wer THEN Update(afterWer, c.result) ELSE afterWer
      stepsCp == IF called.calculate_cp_wer THEN Append(stepsWer, "cp_wer") ELSE stepsWer
  IN  IF called.calculate_wer /\ w.raised # NoException
        THEN [result |-> NoResult, raised |-> w.raised, trace |-> stepsWer]
      ELSE IF called.calculate_cp_wer /\ c.raised # NoException
        THEN [result |-> NoResult, raised |-> c.raised, trace |-> stepsCp]
      ELSE IF ~called.calculate_der
        THEN [result |-> afterCp, raised |-> NoException, trace |-> stepsCp]
      ELSE [result |-> Update(afterCp, DerResults(reference, hypothesis)),
            raised |-> NoException, trace |-> Append(stepsCp, "der")]

Normalized(self, transcript) ==
  IF self.normalize THEN normalize_transcript(transcript) ELSE transcript

\* An evaluation that relabels the hypothesis as it was given, not its
\* normalized copy.
evaluate_RelabelsRawHypothesis(self, called, reference, hypothesis, o1, o2) ==
  LET r == Normalized(self, reference)
      h == Normalized(self, hypothesis)
      steps1 == IF self.normalize THEN <<"normalize">> ELSE <<>>
      m == match_speakers_using_cpwer(r, h, o1)
      steps2 == IF self.match_speakers THEN Append(steps1, "match") ELSE steps1
  IN  IF self.match_speakers /\ m.raised # NoException
        THEN [result |-> NoResult, raised |-> m.raised, trace |-> steps2]
      ELSE EvaluateMetrics(called, r,
                           IF self.match_speakers
                             THEN apply_speaker_mapping(hypothesis, m.result) ELSE h,
                           o2, steps2)

evaluate(self, called, reference, hypothesis, o1, o2) ==
  LET r == Normalized(self, reference)
      h == Normalized(self, hypothesis)
      steps1 == IF self.normalize THEN <<"normalize">> ELSE <<>>
      m == match_speakers_using_cpwer(r, h, o1)
      steps2 == IF self.match_speakers THEN Append(steps1, "match") ELSE steps1
  IN  IF self.match_speakers /\ m.raised # NoException
        THEN [result |-> NoResult, raised |-> m.raised, trace |-> steps2]
      ELSE EvaluateMetrics(called, r,
                           IF self.match_speakers
                             THEN apply_speaker_mapping(h, m.result) ELSE h,
                           o2, steps2)

\* The hypothesis the metrics of an evaluation are computed on.
AlignedHypothesis(self, reference, hypothesis, o1) ==
  LET r == Normalized(self, reference)
      h == Normalized(self, hypothesis)
  IN  IF self.match_speakers
        THEN apply_speaker_mapping(h, match_speakers_using_cpwer(r, h, o1).result)
        ELSE h


----------------------------------------------------------------------------
(* The state machine: one call on one input *)

\* STTBenchmark() and the defaults of evaluate's flags
DefaultBenchmark == [normalize |-> TRUE, match_speakers |-> TRUE]

DefaultFlags == [calculate_wer |-> TRUE, calculate_cp_wer |-> TRUE, calculate_der |-> TRUE]

\* SpeakerMatcher(threshold=80.0)
DefaultMatcher == [threshold |-> 80]

\* The arguments of a call other than the transcripts
NoArgs == << >>

TypeOK ==
  /\ pc \in {"idle", "returned", "raised"}
  /\ op \in {"none", "calculate", "match", "evaluate", "evaluate_wer_only",
            "evaluate_diarization_only", "match_speakers",
            "apply_speaker_mapping", "normalize_transcript", "get_text_by_speaker",
            "add_evaluation", "clear"}
  /\ benchmark \in [normalize : BOOLEAN, match_speakers : BOOLEAN]
  /\ flags \in [calculate_wer : BOOLEAN, calculate_cp_wer : BOOLEAN, calculate_der : BOOLEAN]

Init ==
  /\ ref \in SpeakerTexts(RefNames)
  /\ hyp \in SpeakerTexts(HypNames)
  /\ benchmark = DefaultBenchmark
  /\ matcher = DefaultMatcher
  /\ flags = DefaultFlags
  /\ args = NoArgs
  /\ pc = "idle"
  /\ op = "none"
  /\ solver = [ok |-> TRUE, p |-> <<>>, exc |-> NoException]
  /\ result = NoResult
  /\ raised = NoException
  /\ trace = <<>>

Calculate ==
  /\ pc = "idle"
  /\ \E o \in Outcomes(ref, hyp) :
       \E out \in {calculate(ref, hyp, o)} :
           /\ solver' = o
           /\ result' = out.result
           /\ raised' = out.raised
           /\ trace' = out.trace
           /\ pc' = IF out.raised = NoException THEN "returned" ELSE "raised"
  /\ op' = "calculate"
  /\ UNCHANGED <<ref, hyp, benchmark, matcher, flags, args>>

MatchSpeakersUsingCpwer ==
  /\ pc = "idle"
  /\ \E o \in Outcomes(ref, hyp) :
       \E out \in {match_speakers_using_cpwer(ref, hyp, o)} :
           /\ solver' = o
           /\ result' = out.result
           /\ raised' = out.raised
           /\ trace' = out.trace
           /\ pc' = IF out.raised = NoException THEN "returned" ELSE "raised"
  /\ op' = "match"
  /\ UNCHANGED <<ref, hyp, benchmark, matcher, flags, args>>

Next == Calculate \/ MatchSpeakersUsingCpwer

Spec == Init /\ [][Next]_vars

\* One evaluation by a benchmark object constructed with any settings.
InitEvaluate ==
  /\ ref \in EvalTranscripts(EvalRefNames)
  /\ hyp \in EvalTranscripts(EvalHypNames)
  /\ benchmark \in [normalize : BOOLEAN, match_speakers : BOOLEAN]
  /\ matcher = DefaultMatcher
  /\ flags = DefaultFlags
  /\ args = NoArgs
  /\ pc = "idle"
  /\ op = "none"
  /\ solver = [ok |-> TRUE, p |-> <<>>, exc |-> NoException]
  /\ result = NoResult
  /\ raised = NoException
  /\ trace = <<>>

\* One call of evaluate with the flags f, entered under the name entry.
EvaluateWith(f, entry) ==
  /\ pc = "idle"
  /\ \E b \in SolverBehaviours :
       \E o1 \in OutcomesUnder(b, Normalized(benchmark, ref), Normalized(benchmark, hyp)) :
         \E o2 \in OutcomesUnder(b, Normalized(benchmark, ref),
                                  AlignedHypothesis(benchmark, ref, hyp, o1)) :
           \E out \in {evaluate(benchmark, f, ref, hyp, o1, o2)} :
               /\ flags' = f
               /\ solver' = b
               /\ result' = out.result
               /\ raised' = out.raised
               /\ trace' = out.trace
               /\ pc' = IF out.raised = NoException THEN "returned" ELSE "raised"
  /\ op' = entry
  /\ UNCHANGED <<ref, hyp, benchmark, matcher, args>>

Evaluate ==
  \E f \in [calculate_wer : BOOLEAN, calculate_cp_wer : BOOLEAN, calculate_der : BOOLEAN] :
    EvaluateWith(f, "evaluate")

\* evaluate_wer_only: evaluate(..., calculate_wer=True, calculate_cp_wer=False,
\* calculate_der=False)
\* Flags that also ask for CP-WER
wer_only_flags_WithCpWer == [calculate_wer |-> TRUE, calculate_cp_wer |-> TRUE, calculate_der |-> FALSE]

wer_only_flags == [calculate_wer |-> TRUE, calculate_cp_wer |-> FALSE, calculate_der |-> FALSE]

EvaluateWerOnly == EvaluateWith(wer_only_flags, "evaluate_wer_only")

\* evaluate_diarization_only: evaluate(..., calculate_wer=False,
\* calculate_cp_wer=True, calculate_der=True)
diarization_only_flags == [calculate_wer |-> FALSE, calculate_cp_wer |-> TRUE, calculate_der |-> TRUE]

EvaluateDiarizationOnly == EvaluateWith(diarization_only_flags, "evaluate_diarization_only")

NextEvaluate == Evaluate \/ EvaluateWerOnly \/ EvaluateDiarizationOnly

SpecEvaluate == InitEvaluate /\ [][NextEvaluate]_vars

\* One call of match_speakers on a matcher constructed with any threshold.
InitMatchSpeakers ==
  /\ ref \in Transcripts(MatchRefNames)
  /\ hyp \in Transcripts(MatchHypNames)
  /\ benchmark = DefaultBenchmark
  /\ matcher \in [threshold : Thresholds]
  /\ flags = DefaultFlags
  /\ args = NoArgs
  /\ pc = "idle"
  /\ op = "none"
  /\ solver = [ok |-> TRUE, p |-> <<>>, exc |-> NoException]
  /\ result = NoResult
  /\ raised = NoException
  /\ trace = <<>>

MatchSpeakers ==
  /\ pc = "idle"
  /\ \E ro \in SpeakerOrders(ref), ho \in SpeakerOrders(hyp), e \in EmptyScores :
       LET a == [ref_order |-> ro, hyp_order |-> ho, empty_score |-> e]
       IN  /\ args' = a
           /\ result' = match_speakers(matcher, ref, hyp, a)
  /\ pc' = "returned"
  /\ op' = "match_speakers"
  /\ UNCHANGED <<ref, hyp, benchmark, matcher, flags, solver, raised, trace>>

NextMatchSpeakers == MatchSpeakers

SpecMatchSpeakers == InitMatchSpeakers /\ [][NextMatchSpeakers]_vars

\* One call on the transcript hyp of a function that derives a transcript or
\* a profile from it.
InitTransform ==
  /\ ref = <<>>
  /\ hyp \in TimedTranscripts(CaseNames)
  /\ benchmark = DefaultBenchmark
  /\ matcher = DefaultMatcher
  /\ flags = DefaultFlags
  /\ args = NoArgs
  /\ pc = "idle"
  /\ op = "none"
  /\ solver = [ok |-> TRUE, p |-> <<>>, exc |-> NoException]
  /\ result = NoResult
  /\ raised = NoException
  /\ trace = <<>>

\* The functions build new objects and assign to nothing they are given.
ApplySpeakerMapping ==
  /\ pc = "idle"
  /\ \E mapping \in Mappings :
       /\ args' = [mapping |-> mapping]
       /\ result' = apply_speaker_mapping(hyp, mapping)
  /\ pc' = "returned"
  /\ op' = "apply_speaker_mapping"
  /\ UNCHANGED <<ref, hyp, benchmark, matcher, flags, solver, raised, trace>>

NormalizeTranscript ==
  /\ pc = "idle"
  /\ args' = NoArgs
  /\ result' = normalize_transcript(hyp)
  /\ pc' = "returned"
  /\ op' = "normalize_transcript"
  /\ UNCHANGED <<ref, hyp, benchmark, matcher, flags, solver, raised, trace>>

GetTextBySpeaker ==
  /\ pc = "idle"
  /\ \E speaker \in CaseNames \cup {"B"} :
       /\ args' = [speaker |-> speaker]
       /\ result' = get_text_by_speaker(hyp, speaker)
  /\ pc' = "returned"
  /\ op' = "get_text_by_speaker"
  /\ UNCHANGED <<ref, hyp, benchmark, matcher, flags, solver, raised, trace>>

NextTransform == ApplySpeakerMapping \/ NormalizeTranscript \/ GetTextBySpeaker

SpecTransform == InitTransform /\ [][NextTransform]_vars

----------------------------------------------------------------------------
(* Two evaluate calls in progress on one STTBenchmark instance.  args holds  *)
(* the two calls' frames (arguments, local variables, position); benchmark   *)
(* holds the fields of the instance both calls read.                         *)

\* The two calls
Calls == {1, 2}

WorkingSolver == [ok |-> TRUE, p |-> <<>>, exc |-> NoException]

\* The arguments of one of the calls: single-utterance transcripts.  A
\* reference of "Um" has no words once normalized.
CallTexts == {<<"a">>, <<"A", "b">>}

CallInputs ==
  {<<r, h>> \in EvalTranscripts({"A"}) \X EvalTranscripts({"X"}) :
     /\ Len(r) = 1 /\ r[1].text \in CallTexts \cup {<<"Um">>}
     /\ Len(h) = 1 /\ h[1].text \in CallTexts}

CallFlags == {DefaultFlags, wer_only_flags}

\* The frame of a call at its entry
NewCall(reference, hypothesis, called) ==
  [reference |-> reference, hypothesis |-> hypothesis, called |-> called,
   pc |-> "start", r |-> <<>>, h |-> <<>>,
   result |-> NoResult, raised |-> NoException]

\* A normalization step that switches normalization off on the instance once
\* it has run.
normalize_step_SwitchesOff(self, call) ==
  [self |-> [self EXCEPT !.normalize = FALSE],
   call |-> [call EXCEPT !.r = Normalized(self, call.reference),
                         !.h = Normalized(self, call.hypothesis),
                         !.pc = "normalized"]]

\* if self.normalize: reference = ...; hypothesis = ...
normalize_step(self, call) ==
  [self |-> self,
   call |-> [call EXCEPT !.r = Normalized(self, call.reference),
                         !.h = Normalized(self, call.hypothesis),
                         !.pc = "normalized"]]

\* if self.match_speakers: hypothesis, _ = self.speaker_matcher.match_and_align(...)
match_step(self, call, o1) ==
  LET m == match_speakers_using_cpwer(call.r, call.h, o1)
  IN  [self |-> self,
       call |-> IF self.match_speakers /\ m.raised # NoException
                  THEN [call EXCEPT !.raised = m.raised, !.pc = "raised"]
                ELSE [call EXCEPT !.h = IF self.match_speakers
                                          THEN apply_speaker_mapping(call.h, m.result)
                                          ELSE call.h,
                                  !.pc = "matched"]]

\* results = {} ... return results, out being what the metrics end with
metrics_step(self, call, out) ==
  [self |-> self,
   call |-> [call EXCEPT !.result = out.result, !.raised = out.raised,
                         !.pc = IF out.raised = NoException
                                  THEN "returned" ELSE "raised"]]

InitConcurrent ==
  /\ ref = <<>>
  /\ hyp = <<>>
  /\ benchmark \in [normalize : BOOLEAN, match_speakers : BOOLEAN]
  /\ matcher = DefaultMatcher
  /\ flags = DefaultFlags
  /\ args \in [Calls -> {NewCall(io[1], io[2], f) : io \in CallInputs, f \in CallFlags}]
  /\ pc = "idle"
  /\ op = "evaluate"
  /\ solver = WorkingSolver
  /\ result = NoResult
  /\ raised = NoException
  /\ trace = <<>>

\* Call i has taken the step named step and is left in the frame out.call,
\* the instance in out.self.
Stepped(i, step, out) ==
  /\ benchmark' = out.self
  /\ args' = [args EXCEPT ![i] = out.call]
  /\ trace' = Append(trace, <<i, step>>)
  /\ UNCHANGED <<ref, hyp, matcher, flags, pc, op, solver, result, raised>>

CallNormalize ==
  \E i \in Calls :
    /\ args[i].pc = "start"
    /\ Stepped(i, "normalize", normalize_step(benchmark, args[i]))

CallMatch ==
  \E i \in Calls :
    /\ args[i].pc = "normalized"
    /\ \E o1 \in OutcomesUnder(solver, args[i].r, args[i].h) :
         Stepped(i, "match", match_step(benchmark, args[i], o1))

CallMetrics ==
  \E i \in Calls :
    /\ args[i].pc = "matched"
    /\ \E o2 \in OutcomesUnder(solver, args[i].r, args[i].h) :
         \E out \in {EvaluateMetrics(args[i].called, args[i].r, args[i].h, o2, <<>>)} :
           Stepped(i, "metrics", metrics_step(benchmark, args[i], out))

NextConcurrent == CallNormalize \/ CallMatch \/ CallMetrics

SpecConcurrent == InitConcurrent /\ [][NextConcurrent]_vars

----------------------------------------------------------------------------
(* BatchEvaluator (src/src/stt_benchmarking/export.py): args holds the       *)
(* object's lists results and file_identifiers, benchmark the STTBenchmark   *)
(* it evaluates with, result and raised what the last call returned or       *)
(* raised, and trace the arguments of the evaluations stored since the last  *)
(* clear.                                                                    *)

\* The longest list of stored results considered
MaxFiles == 2

FileIdentifiers == {"f1", "f2"}

\* BatchEvaluator.__init__
NewBatchEvaluator == [results |-> <<>>, file_identifiers |-> <<>>]

\* What self.benchmark.evaluate(reference, hypothesis, **eval_kwargs) can
\* return or raise while the solver works.
EvaluateOutcomes(self, called, reference, hypothesis) ==
  LET r == Normalized(self, reference)
      h == Normalized(self, hypothesis)
  IN  UNION {{evaluate(self, called, reference, hypothesis, o1, o2) :
                o2 \in OutcomesUnder(WorkingSolver, r,
                                     AlignedHypothesis(self, reference, hypothesis, o1))} :
             o1 \in OutcomesUnder(WorkingSolver, r, h)}

\* An add_evaluation that stores the identifier before it evaluates.
add_evaluation_IdentifierFirst(self, file_identifier, out) ==
  IF out.raised # NoException
    THEN [self |-> [self EXCEPT !.file_identifiers = Append(@, file_identifier)],
          result |-> NoResult, raised |-> out.raised]
  ELSE [self |-> [self EXCEPT !.results = Append(@, out.result),
                              !.file_identifiers = Append(@, file_identifier)],
        result |-> out.result, raised |-> NoException]

\* BatchEvaluator.add_evaluation, out being what the evaluation ended with
add_evaluation(self, file_identifier, out) ==
  IF out.raised # NoException
    THEN [self |-> self, result |-> NoResult, raised |-> out.raised]
  ELSE [self |-> [self EXCEPT !.results = Append(@, out.result),
                              !.file_identifiers = Append(@, file_identifier)],
        result |-> out.result, raised |-> NoException]

\* BatchEvaluator.clear
clear(self) == [self EXCEPT !.results = <<>>, !.file_identifiers = <<>>]

InitBatch ==
  /\ ref = <<>>
  /\ hyp = <<>>
  /\ benchmark = DefaultBenchmark
  /\ matcher = DefaultMatcher
  /\ flags = DefaultFlags
  /\ args = NewBatchEvaluator
  /\ pc = "idle"
  /\ op = "none"
  /\ solver = WorkingSolver
  /\ result = NoResult
  /\ raised = NoException
  /\ trace = <<>>

AddEvaluation ==
  /\ \E file_identifier \in FileIdentifiers, io \in CallInputs, f \in CallFlags :
       \E out \in EvaluateOutcomes(benchmark, f, io[1], io[2]) :
         \E done \in {add_evaluation(args, file_identifier, out)} :
           /\ out.raised # NoException \/ Len(args.results) < MaxFiles
           /\ args' = done.self
           /\ result' = done.result
           /\ raised' = done.raised
           /\ pc' = IF done.raised = NoException THEN "returned" ELSE "raised"
           /\ flags' = f
           /\ trace' = IF out.raised = NoException
                         THEN Append(trace, [file_identifier |-> file_identifier,
                                             reference |-> io[1], hypothesis |-> io[2],
                                             called |-> f])
                         ELSE trace
  /\ op' = "add_evaluation"
  /\ UNCHANGED <<ref, hyp, benchmark, matcher, solver>>

Clear ==
  /\ args' = clear(args)
  /\ result' = NoResult
  /\ raised' = NoException
  /\ pc' = "returned"
  /\ op' = "clear"
  /\ trace' = <<>>
  /\ UNCHANGED <<ref, hyp, benchmark, matcher, flags, solver>>

NextBatch == AddEvaluation \/ Clear

SpecBatch == InitBatch /\ [][NextBatch]_vars

----------------------------------------------------------------------------
(* Vocabulary of the properties *)

\* ref_speaker_texts and hyp_speaker_texts of the call in progress
RefTexts == GroupBySpeaker(ref)

HypTexts == GroupBySpeaker(hyp)

TotalWords(texts) == SumSeq([i \in 1..Len(texts) |-> Len(texts[i].text)])

ExactReturned == op = "calculate" /\ pc = "returned" /\ trace = <<"exact">>

GreedyReturned ==
  op = "calculate" /\ pc = "returned" /\ trace = <<"exact", "exact_failed", "greedy">>

\* Every one-to-one pairing of the two speaker sets: f[i] is the hypothesis
\* speaker paired with reference speaker i, or 0 when i is unpaired.
Pairings(refTexts, hypTexts) ==
  {f \in [DOMAIN refTexts -> 0..Len(hypTexts)] :
     \A i, j \in DOMAIN refTexts : (f[i] # 0 /\ f[i] = f[j]) => i = j}

\* Pair edit errors, plus every word of an unpaired reference speaker (a
\* deletion) and of an unpaired hypothesis speaker (an insertion).
PairingCost(refTexts, hypTexts, f) ==
  SumSeq([i \in 1..Len(refTexts) |->
            IF f[i] = 0 THEN Len(refTexts[i].text)
            ELSE Errors(compute_measures(refTexts[i].text, hypTexts[f[i]].text))])
  + SumSeq([j \in 1..Len(hypTexts) |->
            IF \E i \in DOMAIN refTexts : f[i] = j THEN 0 ELSE Len(hypTexts[j].text)])

BruteForceMin(refTexts, hypTexts) ==
  LET costs == {PairingCost(refTexts, hypTexts, f) : f \in Pairings(refTexts, hypTexts)}
  IN  CHOOSE c \in costs : \A d \in costs : c <= d

----------------------------------------------------------------------------
(* The greedy assignment, read back from the returned dictionary *)

TextOf(texts, spk) == texts[CHOOSE i \in DOMAIN texts : texts[i].spk = spk].text

\* No speaker carries the empty string as its label.
NonEmptyLabels == "" \notin Labels(RefTexts) \cup Labels(HypTexts)

Paired(a, k) == a[k][1] # None /\ a[k][2] # None

PairedHyps(a) == {a[k][2] : k \in {m \in DOMAIN a : Paired(a, m)}}

PairedRefs(a) == {a[k][1] : k \in {m \in DOMAIN a : Paired(a, m)}}

\* The hypothesis speakers not yet paired when entry k was appended.
UnmatchedBefore(a, k) ==
  Labels(HypTexts) \ {a[m][2] : m \in {n \in 1..(k - 1) : Paired(a, n)}}

WordsOfSet(texts, spks) ==
  SumSeq([i \in 1..Len(texts) |-> IF texts[i].spk \in spks THEN Len(texts[i].text) ELSE 0])

PairSum(a, field) ==
  SumSeq([k \in 1..Len(a) |->
            IF Paired(a, k)
              THEN Cell(TextOf(RefTexts, a[k][1]), TextOf(HypTexts, a[k][2]))[field]
              ELSE 0])

\* C2 (as claimed): in the greedy assignment every reference speaker and every
\* hypothesis speaker appears in exactly one pair, scored_speaker +
\* missed_speaker is the number of reference speakers and scored_speaker +
\* falarm_speaker is the number of hypothesis speakers.
C2_EachSpeakerInOnePair ==
  GreedyReturned =>
    LET a == result.optimal_assignment
    IN  /\ \A r \in Labels(RefTexts) : Cardinality({k \in DOMAIN a : a[k][1] = r}) = 1
        /\ \A h \in Labels(HypTexts) : Cardinality({k \in DOMAIN a : a[k][2] = h}) = 1
        /\ result.scored_speaker + result.missed_speaker = Len(RefTexts)
        /\ result.scored_speaker + result.falarm_speaker = Len(HypTexts)

\* C2 restricted to inputs without an empty-string label.
C2_HoldsForNonEmptyLabels == NonEmptyLabels => C2_EachSpeakerInOnePair

\* C3 (as claimed): reference speakers are processed in non-increasing order
\* of word count; a pair (r, h) is made only if no hypothesis speaker still
\* unmatched at that point has a strictly lower error rate against r; and a
\* non-empty reference speaker stays unpaired only if no hypothesis speaker
\* was unmatched at that point.
C3_GreedyChoice ==
  GreedyReturned =>
    LET a == result.optimal_assignment
    IN  /\ \A k \in 1..(Len(RefTexts) - 1) :
             Len(TextOf(RefTexts, a[k][1])) >= Len(TextOf(RefTexts, a[k + 1][1]))
        /\ \A k \in 1..Len(RefTexts) :
             /\ Paired(a, k) =>
                  /\ a[k][2] \in UnmatchedBefore(a, k)
                  /\ \A h \in UnmatchedBefore(a, k) :
                       ~RateLess(Cell(TextOf(RefTexts, a[k][1]), TextOf(HypTexts, h)).wer,
                                 Cell(TextOf(RefTexts, a[k][1]), TextOf(HypTexts, a[k][2])).wer)
             /\ (~Paired(a, k) /\ TextOf(RefTexts, a[k][1]) # <<>>) =>
                  UnmatchedBefore(a, k) = {}

\* C3 restricted to inputs without an empty-string label.
C3_HoldsForNonEmptyLabels == NonEmptyLabels => C3_GreedyChoice

\* C4 (as claimed): every unpaired reference speaker adds exactly its word
\* count to deletions and to total_errors and nothing to substitutions or
\* insertions; with no hypothesis speaker and at least one reference word,
\* missed_speaker is the number of reference speakers, total_errors the
\* number of reference words and the rate 1.0.
C4_MissedSpeakersAreDeletions ==
  GreedyReturned =>
    LET a == result.optimal_assignment
        missedWords == WordsOfSet(RefTexts, Labels(RefTexts) \ PairedRefs(a))
        falarmWords == WordsOfSet(HypTexts, Labels(HypTexts) \ PairedHyps(a))
    IN  /\ result.deletions = PairSum(a, "deletions") + missedWords
        /\ result.substitutions = PairSum(a, "substitutions")
        /\ result.total_errors = PairSum(a, "errors") + missedWords + falarmWords
        /\ (Len(HypTexts) = 0 /\ TotalWords(RefTexts) >= 1) =>
             /\ result.missed_speaker = Len(RefTexts)
             /\ result.total_errors = TotalWords(RefTexts)
             /\ RateEq(result.cp_wer, Rate(1, 1))

\* C4 restricted to inputs without an empty-string label.
C4_HoldsForNonEmptyLabels == NonEmptyLabels => C4_MissedSpeakersAreDeletions

\* C5 (as claimed): every unpaired hypothesis speaker is reported as a
\* false-alarm speaker and adds exactly its word count to insertions and to
\* total_errors; with zero reference words the insertions are still recorded
\* and the rate is 0.0.
C5_FalseAlarmsAreInsertions ==
  GreedyReturned =>
    LET a == result.optimal_assignment
        unpaired == Labels(HypTexts) \ PairedHyps(a)
        falarmWords == WordsOfSet(HypTexts, unpaired)
    IN  /\ \A h \in unpaired : \E k \in DOMAIN a : a[k] = <<None, h>>
        /\ result.falarm_speaker = Cardinality(unpaired)
        /\ result.insertions = PairSum(a, "insertions") + falarmWords
        /\ result.total_errors - result.insertions =
             PairSum(a, "errors") - PairSum(a, "insertions")
               + WordsOfSet(RefTexts, Labels(RefTexts) \ PairedRefs(a))
        /\ TotalWords(RefTexts) = 0 =>
             /\ result.insertions = TotalWords(HypTexts)
             /\ result.total_errors = TotalWords(HypTexts)
             /\ RateEq(result.cp_wer, Rate(0, 1))

\* C5 restricted to inputs without an empty-string label.
C5_HoldsForNonEmptyLabels == NonEmptyLabels => C5_FalseAlarmsAreInsertions

----------------------------------------------------------------------------
(* C6 *)

\* The keys calculate puts in its result on either path.
ResultKeys ==
  {"cp_wer", "total_errors", "total_reference_words", "insertions", "deletions",
   "substitutions", "missed_speaker", "falarm_speaker", "scored_speaker",
   "ref_num_speakers", "hyp_num_speakers", "speaker_count_correct",
   "optimal_assignment", "cp_wer_approximation"}

Degenerate ==
  TotalWords(RefTexts) = 0 \/ Len(RefTexts) = 0 \/ Len(HypTexts) = 0

\* A result can only say it is degenerate through an entry that is none of
\* the metric entries.
HasDegenerateFlag(d) == DOMAIN d \ ResultKeys # {}

\* C6: whenever the total reference word count is zero or one side has no
\* speakers, the result calculate returns carries a flag marking it degenerate.
C6_DegenerateResultIsFlagged ==
  (op = "calculate" /\ pc = "returned" /\ Degenerate) => HasDegenerateFlag(result)

----------------------------------------------------------------------------
(* C7 *)

EvalRef == Normalized(benchmark, ref)

EvalHyp == Normalized(benchmark, hyp)

ZeroSpeakerOrAllEmpty ==
  TotalWords(GroupBySpeaker(EvalRef)) = 0 /\ TotalWords(GroupBySpeaker(EvalHyp)) = 0

\* C7: evaluate called with empty transcripts, or with transcripts whose
\* speaker profiles are all empty, returns a result dictionary and raises
\* nothing (the solver itself working).
C7_EvaluateReturnsOnEmptyInput ==
  (op = "evaluate" /\ pc # "idle" /\ solver.ok /\ ZeroSpeakerOrAllEmpty)
    => (pc = "returned" /\ raised = NoException)

----------------------------------------------------------------------------
(* C8, C9, C10 *)

Overflowed ==
  ~solver.ok /\ solver.exc.type = "RuntimeError" /\ solver.exc.msg \in OverflowMessages

\* C8: in every execution of calculate the greedy strategy is never started
\* after an exact solve has been attempted and has failed.
C8_GreedyNeverStartedAfterFailedExact ==
  op = "calculate" =>
    \A k \in DOMAIN trace :
      trace[k] = "greedy" => \A m \in 1..(k - 1) : trace[m] # "exact_failed"

\* C9: when the exact solver reports a speaker count above its safe bound,
\* calculate raises nothing and returns the greedy result computed on the same
\* reference and hypothesis profiles, and match_speakers_using_cpwer returns
\* the greedy mapping instead of raising.
C9_OverflowReturnsGreedy ==
  (pc # "idle" /\ op \in {"calculate", "match"} /\ Overflowed) =>
    /\ pc = "returned"
    /\ raised = NoException
    /\ op = "calculate" => result = _calculate_greedy_cpwer(RefTexts, HypTexts)
    /\ op = "match" => result = _greedy_speaker_matching(RefTexts, HypTexts)

\* The solver gives up with its "Are you sure?" message on two speakers a
\* side, and calculate returns the greedy score of a real pairing.
C9_Witness ==
  /\ op = "calculate" /\ pc = "returned" /\ Overflowed
  /\ solver.exc.msg # "Too many speakers"
  /\ Len(RefTexts) = 2 /\ Len(HypTexts) = 2
  /\ result.scored_speaker = 2
  /\ result.total_errors > 0

\* C10: any failure of the exact solver inside calculate leads to a run of the
\* greedy strategy, and an error reaches the caller only after that run.
C10_AnyExactFailureRunsGreedy ==
  (op = "calculate" /\ pc # "idle" /\ ~solver.ok) =>
    \E k \in DOMAIN trace : trace[k] = "greedy"

----------------------------------------------------------------------------
(* C11, C12, C13 *)

MatchSpeakersReturned == op = "match_speakers" /\ pc = "returned"

\* The similarity score of a hypothesis and a reference speaker of the call
Score(h, r) ==
  token_sort_ratio(get_text_by_speaker(hyp, h), get_text_by_speaker(ref, r),
                   args.empty_score)

\* The pairs of still-unmatched speakers whose score is the highest and at or
\* above the threshold.
BestPairs(H, R) ==
  {p \in H \X R :
     /\ Score(p[1], p[2]) >= matcher.threshold
     /\ \A q \in H \X R : Score(q[1], q[2]) <= Score(p[1], p[2])}

\* Every mapping the global-best-pair procedure can end with (one for each way
\* of breaking ties): pairs taken so far in m, H and R still unmatched.
RECURSIVE GlobalBestPairMappings(_, _, _)
GlobalBestPairMappings(H, R, m) ==
  IF BestPairs(H, R) = {}
    THEN {[h \in DOMAIN m \cup H |-> IF h \in H THEN h ELSE m[h]]}
  ELSE UNION {GlobalBestPairMappings(H \ {p[1]}, R \ {p[2]},
                                     [h \in DOMAIN m \cup {p[1]} |->
                                        IF h = p[1] THEN p[2] ELSE m[h]])
                : p \in BestPairs(H, R)}

\* C11: the mapping match_speakers returns is the one obtained by repeatedly
\* taking, among all pairs of a still-unmatched hypothesis and a still-unmatched
\* reference speaker, the pair of highest score at or above the threshold.
C11_MappingIsGlobalBestPair ==
  MatchSpeakersReturned =>
    result \in GlobalBestPairMappings(get_speakers(hyp), get_speakers(ref), << >>)

\* The two sides share no label and no label is the empty string.
PlainLabels ==
  /\ get_speakers(ref) \cap get_speakers(hyp) = {}
  /\ "" \notin get_speakers(ref) \cup get_speakers(hyp)

\* C11 on inputs with plain labels only.
C11_OnPlainLabels == PlainLabels => C11_MappingIsGlobalBestPair

\* C12: the mapping match_speakers returns has exactly the hypothesis speakers
\* as its keys, maps each to a reference speaker or to its own label, and never
\* maps two hypothesis speakers to the same label, also when the two sides
\* share label strings.
C12_NoneDroppedNoneMerged ==
  MatchSpeakersReturned =>
    /\ DOMAIN result = get_speakers(hyp)
    /\ \A h \in DOMAIN result : result[h] = h \/ result[h] \in get_speakers(ref)
    /\ \A h1, h2 \in DOMAIN result : result[h1] = result[h2] => h1 = h2

\* C12 on inputs whose sides share no label.
C12_OnDisjointLabels ==
  get_speakers(ref) \cap get_speakers(hyp) = {} => C12_NoneDroppedNoneMerged

\* A hypothesis speaker is mapped to a reference label only if their score is
\* at or above the threshold; with a threshold above 100 every hypothesis
\* speaker keeps its label.
C13_ThresholdRespected ==
  MatchSpeakersReturned =>
    /\ \A h \in DOMAIN result :
         result[h] # h =>
           /\ result[h] \in get_speakers(ref)
           /\ Score(h, result[h]) >= matcher.threshold
    /\ matcher.threshold > 100 => \A h \in DOMAIN result : result[h] = h

\* Speakers h and r have the same text and no other speaker of either side has it.
OnlyEqualTexts(h, r) ==
  /\ get_text_by_speaker(hyp, h) = get_text_by_speaker(ref, r)
  /\ \A h2 \in get_speakers(hyp) \ {h} :
       get_text_by_speaker(hyp, h2) # get_text_by_speaker(hyp, h)
  /\ \A r2 \in get_speakers(ref) \ {r} :
       get_text_by_speaker(ref, r2) # get_text_by_speaker(ref, r)

\* C13: match_speakers maps a hypothesis speaker to a reference label only if
\* their score is at or above the threshold; at threshold 80 a hypothesis
\* speaker whose text equals a reference speaker's text is mapped to that
\* speaker, and with a threshold above 100 the mapping is the identity.
C13_EqualTextIsMatched ==
  /\ C13_ThresholdRespected
  /\ (MatchSpeakersReturned /\ matcher.threshold = 80) =>
       \A h \in get_speakers(hyp), r \in get_speakers(ref) :
         OnlyEqualTexts(h, r) => result[h] = r

\* C13 for one reference and one hypothesis speaker with words, the reference
\* label not being the empty string.
C13_OnSinglePair ==
  (/\ Cardinality(get_speakers(ref)) = 1
   /\ Cardinality(get_speakers(hyp)) = 1
   /\ "" \notin get_speakers(ref)
   /\ get_all_text(ref) # <<>>) => C13_EqualTextIsMatched

----------------------------------------------------------------------------
(* C14, C15, C16 *)

\* The per-speaker profiles of a transcript: each speaker with its words
Profiles(transcript) ==
  {<<spk, get_text_by_speaker(transcript, spk)>> : spk \in get_speakers(transcript)}

\* The mapping sends every speaker of the transcript it mentions to itself.
IsIdentityOn(mapping, transcript) ==
  \A spk \in DOMAIN mapping \cap get_speakers(transcript) : mapping[spk] = spk

\* C14: apply_speaker_mapping with the identity mapping, or with a mapping that
\* has no entry for a speaker, returns a transcript with the profiles of the
\* input, and applying it a second time gives the same profiles again.
C14_IdentityMappingKeepsProfiles ==
  (op = "apply_speaker_mapping" /\ IsIdentityOn(args.mapping, hyp)) =>
    /\ Profiles(result) = Profiles(hyp)
    /\ Profiles(apply_speaker_mapping(result, args.mapping)) = Profiles(hyp)

\* An identity on one speaker, with no entry for the other, applied to a
\* transcript in which both speak.
C14_Witness ==
  /\ op = "apply_speaker_mapping"
  /\ DOMAIN args.mapping = {"A"} /\ args.mapping["A"] = "A"
  /\ get_speakers(hyp) = {"A", "a"}
  /\ get_text_by_speaker(hyp, "A") # <<>>
  /\ get_text_by_speaker(hyp, "a") # <<>>
  /\ Profiles(result) = Profiles(hyp)

\* C15: apply_speaker_mapping and normalize_transcript leave the transcript
\* they are given unchanged and return one with as many utterances in the same
\* order; apply_speaker_mapping keeps text and timestamps and replaces every
\* label through the mapping at once, normalize_transcript keeps speaker and
\* timestamps.
C15_TransformsBuildNewTranscripts ==
  [][/\ op' \in {"apply_speaker_mapping", "normalize_transcript"} =>
          /\ hyp' = hyp
          /\ Len(result') = Len(hyp)
          /\ \A i \in DOMAIN hyp :
               /\ result'[i].start_time = hyp[i].start_time
               /\ result'[i].end_time = hyp[i].end_time
     /\ op' = "apply_speaker_mapping" =>
          \A i \in DOMAIN hyp :
            /\ result'[i].text = hyp[i].text
            /\ result'[i].spk = IF hyp[i].spk \in DOMAIN args'.mapping
                                  THEN args'.mapping[hyp[i].spk] ELSE hyp[i].spk
     /\ op' = "normalize_transcript" =>
          \A i \in DOMAIN hyp : result'[i].spk = hyp[i].spk]_vars

\* The two labels are swapped in a transcript whose utterances carry
\* timestamps.
C15_Witness ==
  /\ op = "apply_speaker_mapping"
  /\ DOMAIN args.mapping = {"A", "a"}
  /\ args.mapping["A"] = "a" /\ args.mapping["a"] = "A"
  /\ Len(hyp) = 2
  /\ hyp[1].spk = "A" /\ hyp[2].spk = "a"
  /\ hyp[1].start_time = 0 /\ hyp[2].end_time = 1
  /\ hyp[1].text # <<>>
  /\ result[1].spk = "a" /\ result[2].spk = "A"

\* The words of the utterances from position i on whose label is spk, in
\* transcript order
RECURSIVE WordsWhere(_, _, _)
WordsWhere(transcript, spk, i) ==
  IF i > Len(transcript) THEN <<>>
  ELSE (IF transcript[i].spk = spk THEN transcript[i].text ELSE <<>>)
         \o WordsWhere(transcript, spk, i + 1)

\* C16: a speaker's profile is the concatenation, in transcript order, of the
\* text of exactly the utterances carrying the same label string; every
\* utterance contributes to exactly one profile; and the grouping done in
\* CPWERMetrics.calculate gives the profiles get_text_by_speaker gives.
C16_ProfilesByExactLabel ==
  op = "get_text_by_speaker" =>
    LET grouped == GroupBySpeaker(hyp)
    IN  /\ result = WordsWhere(hyp, args.speaker, 1)
        /\ Labels(grouped) = get_speakers(hyp)
        /\ \A i, j \in DOMAIN grouped : grouped[i].spk = grouped[j].spk => i = j
        /\ \A i \in DOMAIN grouped :
             grouped[i].text = get_text_by_speaker(hyp, grouped[i].spk)
        /\ TotalWords(grouped) = Len(get_all_text(hyp))

\* Two utterances whose labels differ in case only: each has its own profile.
C16_Witness ==
  /\ op = "get_text_by_speaker"
  /\ args.speaker = "a"
  /\ Len(hyp) = 2
  /\ hyp[1].spk = "A" /\ hyp[2].spk = "a"
  /\ hyp[1].text # <<>> /\ hyp[2].text # <<>>
  /\ result = hyp[2].text
  /\ Len(GroupBySpeaker(hyp)) = 2

----------------------------------------------------------------------------
(* C17 *)

\* The labels a hypothesis speaker may be given
HypLabels == {HypNames[i] : i \in DOMAIN HypNames} \cup {""}

\* Every one-to-one relabeling of the hypothesis speakers of the call
Relabelings ==
  {f \in [Labels(HypTexts) -> HypLabels] : \A x, y \in DOMAIN f : f[x] = f[y] => x = y}

Relabel(hypTexts, f) ==
  [i \in DOMAIN hypTexts |-> [spk |-> f[hypTexts[i].spk], text |-> hypTexts[i].text]]

\* The entries of a CP-WER result that do not name speakers
Aggregates(d) ==
  <<d.total_errors, d.substitutions, d.deletions, d.insertions,
    d.total_reference_words, d.missed_speaker, d.falarm_speaker, d.scored_speaker,
    d.ref_num_speakers, d.hyp_num_speakers, d.speaker_count_correct, d.cp_wer>>

\* C17: a one-to-one relabeling of the hypothesis speakers leaves the error
\* totals, the reference word total, the speaker counts and the aggregate rate
\* of the greedy result unchanged.
C17_GreedyIsRelabelingInvariant ==
  GreedyReturned =>
    \A f \in Relabelings :
      Aggregates(_calculate_greedy_cpwer(RefTexts, Relabel(HypTexts, f)))
        = Aggregates(result)

\* C17 for labels and relabelings without the empty string.
C17_HoldsForNonEmptyLabels ==
  (GreedyReturned /\ NonEmptyLabels) =>
    \A f \in Relabelings :
      (\A x \in DOMAIN f : f[x] # "") =>
        Aggregates(_calculate_greedy_cpwer(RefTexts, Relabel(HypTexts, f)))
          = Aggregates(result)

----------------------------------------------------------------------------
(* C18 *)

\* The hypothesis speakers are the reference speakers under other labels:
\* as many speakers, with the same texts.
IsRelabelingOfReference ==
  /\ Len(RefTexts) = Len(HypTexts)
  /\ \E p \in Bijections(Len(RefTexts)) :
       \A i \in DOMAIN RefTexts : HypTexts[p[i]].text = RefTexts[i].text

\* C18: when the hypothesis speakers are a one-to-one relabeling of the
\* reference speakers with identical texts, calculate pairs every reference
\* speaker with a hypothesis speaker of identical text, total_errors is 0, the
\* rate is 0.0 and no speaker is missed or a false alarm.
C18_RelabeledReferenceScoresZero ==
  (op = "calculate" /\ pc = "returned" /\ IsRelabelingOfReference) =>
    LET a == result.optimal_assignment
    IN  /\ \A r \in Labels(RefTexts) :
             \E k \in DOMAIN a :
               /\ a[k][1] = r
               /\ a[k][2] \in Labels(HypTexts)
               /\ TextOf(HypTexts, a[k][2]) = TextOf(RefTexts, r)
        /\ result.total_errors = 0
        /\ RateEq(result.cp_wer, Rate(0, 1))
        /\ result.missed_speaker = 0
        /\ result.falarm_speaker = 0

AllProfilesHaveWords ==
  /\ \A i \in DOMAIN RefTexts : RefTexts[i].text # <<>>
  /\ \A j \in DOMAIN HypTexts : HypTexts[j].text # <<>>

\* C18 when every speaker has words and no label is the empty string.
C18_HoldsForWordsAndNonEmptyLabels ==
  (NonEmptyLabels /\ AllProfilesHaveWords /\ Len(RefTexts) > 0)
    => C18_RelabeledReferenceScoresZero

----------------------------------------------------------------------------
(* C19, C20 *)

\* C19: in the greedy result total_reference_words is the sum of the word
\* counts of all reference speakers, paired or missed, and whenever that sum
\* is positive the rate is total_errors divided by total_reference_words.
C19_ReferenceWordsAndRate ==
  GreedyReturned =>
    /\ result.total_reference_words = TotalWords(RefTexts)
    /\ TotalWords(RefTexts) > 0 =>
         RateEq(result.cp_wer, Rate(result.total_errors, TotalWords(RefTexts)))

\* One reference speaker is paired and another, with words, is missed.
C19_Witness ==
  /\ GreedyReturned
  /\ result.scored_speaker = 1
  /\ result.missed_speaker = 1
  /\ \A i \in DOMAIN RefTexts : RefTexts[i].text # <<>>
  /\ result.total_reference_words >= 2
  /\ result.total_errors > result.deletions

HasFiniteWer(refText, hypText) == Cell(refText, hypText).wer # Inf

\* C20: a speaker without words has infinite cost against every counterpart,
\* and the greedy strategy never pairs such a speaker while a speaker with
\* words that could take its place is still unmatched at a finite cost.
C20_EmptyProfilesAreMatchedLast ==
  GreedyReturned =>
    LET a == result.optimal_assignment
    IN  /\ \A i \in DOMAIN RefTexts, j \in DOMAIN HypTexts :
             (RefTexts[i].text = <<>> \/ HypTexts[j].text = <<>>) =>
               ~HasFiniteWer(RefTexts[i].text, HypTexts[j].text)
        /\ \A k \in DOMAIN a :
             (Paired(a, k) /\ TextOf(HypTexts, a[k][2]) = <<>>) =>
               \A h \in UnmatchedBefore(a, k) :
                 TextOf(HypTexts, h) # <<>> =>
                   ~HasFiniteWer(TextOf(RefTexts, a[k][1]), TextOf(HypTexts, h))
        /\ \A k \in DOMAIN a : Paired(a, k) => TextOf(RefTexts, a[k][1]) # <<>>

\* The part of C20 about reference speakers: one without words has infinite
\* cost against every hypothesis speaker and is never paired.
C20_HoldsForReferenceSpeakers ==
  GreedyReturned =>
    LET a == result.optimal_assignment
    IN  /\ \A i \in DOMAIN RefTexts, j \in DOMAIN HypTexts :
             RefTexts[i].text = <<>> =>
               ~HasFiniteWer(RefTexts[i].text, HypTexts[j].text)
        /\ \A k \in DOMAIN a : Paired(a, k) => TextOf(RefTexts, a[k][1]) # <<>>

----------------------------------------------------------------------------
(* C21, C22, C23 *)

EvaluateCalled ==
  op \in {"evaluate", "evaluate_wer_only", "evaluate_diarization_only"} /\ pc # "idle"

MetricSteps == {"wer", "cp_wer", "der"}

\* C21: with normalization and speaker matching enabled, evaluate normalizes
\* both transcripts first, matches speakers next and computes metrics last, and
\* what it returns are the metrics of the normalized reference and the
\* normalized, relabeled hypothesis.
C21_NormalizeThenMatchThenMetrics ==
  (EvaluateCalled /\ benchmark.normalize /\ benchmark.match_speakers) =>
    LET r == normalize_transcript(ref)
        h == normalize_transcript(hyp)
    IN  /\ Len(trace) >= 2 /\ trace[1] = "normalize" /\ trace[2] = "match"
        /\ \A k \in 3..Len(trace) : trace[k] \in MetricSteps
        /\ pc = "returned" =>
             \E o1 \in OutcomesUnder(solver, r, h) :
               LET m == match_speakers_using_cpwer(r, h, o1)
                   relabeled == apply_speaker_mapping(h, m.result)
               IN  /\ m.raised = NoException
                   /\ \E o2 \in OutcomesUnder(solver, r, relabeled) :
                        result = EvaluateMetrics(flags, r, relabeled, o2, <<>>).result

\* An evaluation where normalization changed the hypothesis, the mapping
\* renamed a hypothesis speaker, and all three metric families were computed.
C21_Witness ==
  /\ EvaluateCalled /\ pc = "returned"
  /\ benchmark.normalize /\ benchmark.match_speakers
  /\ normalize_transcript(hyp) # hyp
  /\ trace = <<"normalize", "match", "wer", "cp_wer", "der">>
  /\ \E o1 \in OutcomesUnder(solver, normalize_transcript(ref), normalize_transcript(hyp)) :
       AlignedHypothesis(benchmark, ref, hyp, o1) # normalize_transcript(hyp)

WerKeys == {"wer", "mer", "wil"}

DerKeys == {"der", "speaker_error_rate"}

\* C22: a returned evaluation contains the keys of a metric family exactly
\* when the family's flag was set; evaluate_wer_only returns wer, mer and wil
\* without cp_wer, and evaluate_diarization_only returns cp_wer without wer.
C22_MetricFamilyIffFlag ==
  (EvaluateCalled /\ pc = "returned") =>
    /\ IF flags.calculate_wer THEN WerKeys \subseteq DOMAIN result
                              ELSE WerKeys \cap DOMAIN result = {}
    /\ flags.calculate_cp_wer <=> "cp_wer" \in DOMAIN result
    /\ flags.calculate_der <=> DerKeys \cap DOMAIN result # {}
    /\ op = "evaluate_wer_only" =>
         WerKeys \subseteq DOMAIN result /\ "cp_wer" \notin DOMAIN result
    /\ op = "evaluate_diarization_only" =>
         "cp_wer" \in DOMAIN result /\ "wer" \notin DOMAIN result

\* evaluate_diarization_only returned for transcripts with words on both sides.
C22_Witness ==
  /\ op = "evaluate_diarization_only" /\ pc = "returned"
  /\ ref # <<>> /\ hyp # <<>>
  /\ "cp_wer" \in DOMAIN result /\ "speaker_error_rate" \in DOMAIN result

CallEnded(i) == args[i].pc \in {"returned", "raised"}

\* What the call of frame c returns or raises when it runs alone on the
\* instance self.
AloneOutcomes(self, c) ==
  LET r == Normalized(self, c.reference)
      h == Normalized(self, c.hypothesis)
  IN  UNION {{evaluate(self, c.called, c.reference, c.hypothesis, o1, o2) :
                o2 \in OutcomesUnder(WorkingSolver, r,
                                     AlignedHypothesis(self, c.reference, c.hypothesis, o1))} :
             o1 \in OutcomesUnder(WorkingSolver, r, h)}

EachCallEndsAsAlone ==
  \A i \in Calls :
    CallEnded(i) =>
      \E out \in AloneOutcomes(benchmark, args[i]) :
        out.result = args[i].result /\ out.raised = args[i].raised

\* C23: no step of an evaluate call changes a field of the STTBenchmark
\* instance, and each of two calls on one instance, run one after the other or
\* interleaved step by step, ends with the result it has when run alone.
C23_CallsShareNoMutableState ==
  /\ []EachCallEndsAsAlone
  /\ [][benchmark' = benchmark /\ matcher' = matcher]_vars

\* Two calls with different arguments, the second started between two steps
\* of the first, both returned with different results.
C23_Witness ==
  /\ args[1].pc = "returned" /\ args[2].pc = "returned"
  /\ args[1].reference # args[2].reference
  /\ args[1].result # args[2].result
  /\ Len(trace) = 6
  /\ trace[1][1] = 1 /\ trace[2][1] = 2 /\ trace[3][1] = 1
  /\ benchmark.normalize /\ benchmark.match_speakers

----------------------------------------------------------------------------
(* C24, C25, C26 *)

\* C24: the cell the greedy strategy builds for a reference speaker without
\* words and a hypothesis speaker with words records no deletion and one
\* insertion per hypothesis word.
C24_EmptyReferenceCellCountsInsertions ==
  GreedyReturned =>
    \A i \in DOMAIN RefTexts, j \in DOMAIN HypTexts :
      (RefTexts[i].text = <<>> /\ HypTexts[j].text # <<>>) =>
        LET cell == Cell(RefTexts[i].text, HypTexts[j].text)
        IN  cell.deletions = 0 /\ cell.insertions = Len(HypTexts[j].text)

\* C25: the dictionary calculate returns has the same keys whether the exact
\* path or the greedy path produced it: a greedy result has the keys of the
\* exact result of the same input.
C25_SameKeysOnBothPaths ==
  GreedyReturned =>
    \A o \in Outcomes(ref, hyp) :
      o.ok => DOMAIN result = DOMAIN calculate(ref, hyp, o).result

\* C26: in every result of the greedy strategy the four counts are
\* non-negative and total_errors = substitutions + deletions + insertions.
C26_GreedyErrorsAreSumOfCounts ==
  GreedyReturned =>
    /\ result.total_errors = result.substitutions + result.deletions + result.insertions
    /\ result.total_errors >= 0 /\ result.substitutions >= 0
    /\ result.deletions >= 0 /\ result.insertions >= 0

\* A greedy result with a substitution from a scored pair and insertions
\* from an unmatched hypothesis speaker.
C26_Witness ==
  /\ GreedyReturned
  /\ result.substitutions > 0 /\ result.insertions > 0
  /\ result.scored_speaker > 0 /\ result.falarm_speaker > 0

----------------------------------------------------------------------------
(* C27, C28, C29 *)

\* The loop of match_speakers in which a reference speaker is unavailable
\* only once an earlier hypothesis speaker has been matched to it: matched
\* lists the pairs made so far, without the speakers that kept their label.
RECURSIVE MatchedOnlyLoop(_, _, _)
MatchedOnlyLoop(hyp_order, speaker_mapping, matched) ==
  IF hyp_order = <<>> THEN speaker_mapping
  ELSE LET hyp_spk == Head(hyp_order)
           best == BestMatchFrom(matcher, get_text_by_speaker(hyp, hyp_spk), ref,
                                 args.ref_order, matched, args.empty_score,
                                 [best_match |-> None, best_score |-> 0])
           found == Truthy(best.best_match)
       IN  MatchedOnlyLoop(Tail(hyp_order),
                           Append(speaker_mapping,
                                  <<hyp_spk, IF found THEN best.best_match ELSE hyp_spk>>),
                           IF found THEN Append(matched, <<hyp_spk, best.best_match>>)
                                    ELSE matched)

\* C27: match_speakers treats a reference speaker as matched only when an
\* earlier hypothesis speaker was matched to it; a hypothesis speaker that
\* kept its own label leaves the reference speaker of that label available.
C27_KeptLabelLeavesReferenceAvailable ==
  MatchSpeakersReturned =>
    result = AsDict(MatchedOnlyLoop(args.hyp_order, <<>>, <<>>))

IsInjective(mapping) ==
  \A h1, h2 \in DOMAIN mapping : mapping[h1] = mapping[h2] => h1 = h2

\* C28: the mapping match_speakers_using_cpwer returns, from the exact
\* assignment or from the greedy fallback, has every hypothesis speaker as a
\* key and sends no two hypothesis speakers to one label, so the relabeled
\* hypothesis has as many speakers as the hypothesis.
C28_MappingIsInjective ==
  (EvaluateCalled /\ benchmark.match_speakers) =>
    \A o1 \in OutcomesUnder(solver, EvalRef, EvalHyp) :
      LET m == match_speakers_using_cpwer(EvalRef, EvalHyp, o1)
      IN  m.raised = NoException =>
            /\ DOMAIN m.result = get_speakers(EvalHyp)
            /\ IsInjective(m.result)
            /\ Cardinality(get_speakers(apply_speaker_mapping(EvalHyp, m.result)))
                 = Cardinality(get_speakers(EvalHyp))

GreedyMatchReturned ==
  op = "match" /\ pc = "returned" /\ trace = <<"exact", "exact_failed", "greedy">>

\* The (reference, hypothesis) pairs of the returned mapping: the entries
\* whose value is a reference speaker.
MappingPairs == {<<result[h], h>> : h \in {k \in DOMAIN result : result[k] \in Labels(RefTexts)}}

\* The pairs of the assignment _calculate_greedy_cpwer makes on the same
\* profiles.
GreedyAssignmentPairs ==
  LET a == _calculate_greedy_cpwer(RefTexts, HypTexts).optimal_assignment
  IN  {<<a[k][1], a[k][2]>> : k \in {m \in DOMAIN a : Paired(a, m)}}

\* C29: after an overflow of the exact solver, the mapping built by
\* _greedy_speaker_matching pairs the same reference and hypothesis speakers
\* as the assignment of _calculate_greedy_cpwer on the same profiles.
C29_GreedyMatcherPairsAsGreedyCpwer ==
  GreedyMatchReturned => MappingPairs = GreedyAssignmentPairs

----------------------------------------------------------------------------
(* C30 *)

\* results and file_identifiers are as long as the list of the evaluations
\* stored since the last clear, and entry i of each belongs to evaluation i.
ListsAligned ==
  /\ Len(args.results) = Len(args.file_identifiers)
  /\ Len(args.results) = Len(trace)
  /\ \A i \in DOMAIN trace :
       /\ args.file_identifiers[i] = trace[i].file_identifier
       /\ \E out \in EvaluateOutcomes(benchmark, trace[i].called,
                                      trace[i].reference, trace[i].hypothesis) :
            out.raised = NoException /\ args.results[i] = out.result

\* C30: after any sequence of add_evaluation and clear calls the lists
\* results and file_identifiers have the same length and results[i] is the
\* result of the evaluation added under file_identifiers[i]; an
\* add_evaluation whose evaluation raises changes neither list, and clear
\* leaves both empty.
C30_BatchListsStayAligned ==
  /\ [](ListsAligned /\ (op = "clear" => args = NewBatchEvaluator))
  /\ [][(op' = "add_evaluation" /\ pc' = "raised") => args' = args]_vars

\* Two evaluations stored under different identifiers with different results,
\* and a third add_evaluation that raised.
C30_Witness ==
  /\ op = "add_evaluation" /\ pc = "raised"
  /\ Len(args.results) = 2
  /\ args.file_identifiers[1] # args.file_identifiers[2]
  /\ args.results[1] # args.results[2]

====
